---- MODULE Spec2Model ----
(***************************************************************************)
(* A model of glmark2's 2D convolution effect scene, scene-effect-2d.cpp:  *)
(* the matrix parser (split, parse_matrix), the normalizer (normalize),    *)
(* the offset calculator (calc_offset), the fragment shader generator      *)
(* (create_convolution_fragment_shader) and the scene operations that      *)
(* compose them (SceneEffect2D::load, SceneEffect2D::setup).               *)
(*                                                                         *)
(* Representation choices:                                                 *)
(*  - a std::string is a sequence of one-character strings;                *)
(*  - an unsigned int is a pair <<hi, lo>> of 16-bit limbs, so arithmetic  *)
(*    is carried out modulo 2^32 as the machine does it;                   *)
(*  - a float is an exact rational <<num, den>> in lowest terms with       *)
(*    den > 0.  The kernels the model draws have sums that a float holds   *)
(*    exactly; the quotient of a division is kept exact, where the machine *)
(*    rounds it to the nearest float;                                      *)
(*  - the text a stringstream receives is a sequence of tokens.            *)
(***************************************************************************)
EXTENDS Integers, Sequences, FiniteSets, TLC

VARIABLES
    pc,             \* position: "call"/"ret" of a function, "scene" of the scene
    matrix,         \* mOptions["matrix"].value, parse_matrix's str
    normalizeOpt,   \* mOptions["normalize"].value
    mRunning,       \* Scene::mRunning
    filter,         \* setup's filter, the vector the functions work on
    filter_width,   \* setup's filter_width (unsigned int)
    filter_height,  \* setup's filter_height (unsigned int)
    i,              \* calc_offset's index argument
    ret,            \* the value the last function call returned
    frg_source,     \* setup's frg_source.str()
    log,            \* the Log::error records of the last call
    stages          \* the stages the last setup ran, in order

vars == <<pc, matrix, normalizeOpt, mRunning, filter, filter_width,
          filter_height, i, ret, frg_source, log, stages>>

(***************************************************************************)
(* Bounds of the model.                                                    *)
(***************************************************************************)
MaxLen == 5         \* longest matrix string drawn exhaustively for parse_matrix
MaxOptLen == 3      \* longest matrix option drawn exhaustively for the scene
MaxFilterLen == 4   \* longest kernel drawn for normalize
MaxDim == 4         \* largest width and height drawn for calc_offset
MaxArray == 3       \* longest coefficient array drawn for the generator

Abs(n) == IF n < 0 THEN -n ELSE n

Min(S) == CHOOSE m \in S : \A n \in S : m <= n

(***************************************************************************)
(* unsigned int: 32 bits as two 16-bit limbs <<hi, lo>>.                   *)
(***************************************************************************)
W16 == 2^16

\* the unsigned int holding n, for 0 <= n < 2^31
U32(n) == <<n \div W16, n % W16>>

\* climits' UINT_MAX
UINT_MAX == <<W16 - 1, W16 - 1>>

\* a - b on unsigned int: wraps modulo 2^32
Sub32(a, b) ==
    LET lo == a[2] - b[2]
        borrow == IF lo < 0 THEN 1 ELSE 0
        hi == a[1] - b[1] - borrow
    IN  <<(hi + W16) % W16, (lo + W16) % W16>>

\* a defect for C7: the negation of line 59 left out
Neg32Omitted(a) == a

\* -a on unsigned int: 2^32 - a modulo 2^32
Neg32(a) == Sub32(<<0, 0>>, a)

\* a / 2 on unsigned int
Half32(a) == <<a[1] \div 2, (a[1] % 2) * (W16 \div 2) + a[2] \div 2>>

\* (a * b) mod 2^16 for 16-bit a, b, with every intermediate below 2^31
MulMod16(a, b) == (((a * (b \div 256)) % W16) * 256 + a * (b % 256)) % W16

\* (a * b) div 2^16 for 16-bit a, b, with every intermediate below 2^31
MulDiv16(a, b) ==
    LET p1 == a * (b \div 256)
        p0 == a * (b % 256)
    IN  p1 \div 256 + ((p1 % 256) * 256 + p0) \div W16

\* a * b on unsigned int: wraps modulo 2^32
Mul32(a, b) ==
    <<(MulDiv16(a[2], b[2]) + MulMod16(a[1], b[2]) + MulMod16(a[2], b[1])) % W16,
      MulMod16(a[2], b[2])>>

\* the conversion unsigned int -> int: the same 32 bits read as two's complement
ToInt(a) ==
    IF a[1] >= W16 \div 2 THEN (a[1] - W16) * W16 + a[2]
    ELSE a[1] * W16 + a[2]

\* i / width and i % width on unsigned int, for an index i < 2^31
\* (width = 0 is excluded by the callers: the division is undefined there)
Div32(n, width) ==
    IF width[1] >= W16 \div 2 THEN U32(0) ELSE U32(n \div ToInt(width))

Mod32(n, width) ==
    IF width[1] >= W16 \div 2 THEN U32(n) ELSE U32(n % ToInt(width))

(***************************************************************************)
(* float: exact rationals <<num, den>>, den > 0, in lowest terms.          *)
(***************************************************************************)
RECURSIVE GCD(_, _)
GCD(a, b) == IF b = 0 THEN a ELSE GCD(b, a % b)

Rat(n, d) ==
    IF n = 0 THEN <<0, 1>>
    ELSE LET g == GCD(Abs(n), d) IN <<n \div g, d \div g>>

Flt(n) == <<n, 1>>

FAdd(a, b) ==
    LET g == GCD(a[2], b[2])
    IN  Rat(a[1] * (b[2] \div g) + b[1] * (a[2] \div g), a[2] * (b[2] \div g))

\* a / s, cancelling before multiplying.  A division by zero yields what
\* IEEE arithmetic yields, written with denominator 0: <<1, 0>> is +inf,
\* <<-1, 0>> is -inf and <<0, 0>> is NaN.
FDiv(a, s) ==
    IF s[1] = 0 THEN <<(IF a[1] > 0 THEN 1 ELSE IF a[1] < 0 THEN -1 ELSE 0), 0>>
    ELSE IF a[1] = 0 THEN <<0, 1>>
    ELSE LET g1 == GCD(Abs(a[1]), Abs(s[1]))
             g2 == GCD(a[2], s[2])
             n == (a[1] \div g1) * (s[2] \div g2)
             d == (a[2] \div g2) * (s[1] \div g1)
         IN  IF d < 0 THEN <<-n, -d>> ELSE <<n, d>>

\* a * b, cancelling before multiplying
FMul(a, b) ==
    IF a[1] = 0 \/ b[1] = 0 THEN <<0, 1>>
    ELSE LET g1 == GCD(Abs(a[1]), b[2])
             g2 == GCD(Abs(b[1]), a[2])
         IN  <<(a[1] \div g1) * (b[1] \div g2), (a[2] \div g2) * (b[2] \div g1)>>

\* the epsilon of line 238, 0.00000001, is 1 / EpsilonDen
EpsilonDen == 10^8

\* fabs(a) < 0.00000001, without forming a product beyond 2^31
FAbsBelowEpsilon(a) == Abs(a[1]) <= (a[2] - 1) \div EpsilonDen

RECURSIVE FSum(_)
FSum(s) == IF s = <<>> THEN <<0, 1>> ELSE FAdd(FSum(SubSeq(s, 1, Len(s) - 1)), s[Len(s)])

(***************************************************************************)
(* Strings and the characters the model draws them from.                   *)
(***************************************************************************)
Chars == {"0", "1", "-", ",", ";"}

DigitChars == <<"0", "1", "2", "3", "4", "5", "6", "7", "8", "9">>

IsDigit(c) == \E k \in 1..Len(DigitChars) : DigitChars[k] = c

DigitVal(c) == (CHOOSE k \in 1..Len(DigitChars) : DigitChars[k] = c) - 1

\* every string over Chars of length at most n
StringsUpTo(n) == UNION {[1..k -> Chars] : k \in 0..n}

\* the constructor's default matrix, and the strings of the documented examples
DefaultMatrix ==
    <<"0", ",", "0", ",", "0", ";", "0", ",", "1", ",", "0", ";", "0", ",", "0", ",", "0">>

Samples ==
    { DefaultMatrix,
      <<"1", ",", "2", ";", "3">>,
      <<"1", ",", "2", ";", "3", ",", "4">>,
      <<"1", ",", "-", "1", ";", "1", ",", "-", "1">>,
      <<"1", ",", "2", ",", "3", ";", "4", ",", "5", ",", "6">>,
      <<"1", ",", "2", ";", "3", ",", "4", ";", "5">>,
      <<"5">> }

MatrixStrings == StringsUpTo(MaxLen) \cup Samples

(***************************************************************************)
(* split: std::getline in a loop.  getline reads up to the next delimiter  *)
(* (which it discards) or the end of the string, and fails, ending the     *)
(* loop, when it is called at the end of the string.                       *)
(***************************************************************************)
\* the position of the first delim at or after p, Len(s) + 1 when there is none
FindDelim(s, delim, p) ==
    IF \E q \in p..Len(s) : s[q] = delim
    THEN Min({q \in p..Len(s) : s[q] = delim})
    ELSE Len(s) + 1

RECURSIVE getline(_, _, _, _)
getline(s, delim, p, elems) ==
    IF p > Len(s) THEN elems
    ELSE LET q == FindDelim(s, delim, p)
         IN  getline(s, delim, q + 1, Append(elems, SubSeq(s, p, q - 1)))

split(s, delim, elems) == getline(s, delim, 1, elems)

(***************************************************************************)
(* "float f; ss >> f;" on one element.  An empty element makes the stream's*)
(* sentry fail before anything is stored, so f keeps its uninitialized     *)
(* value (junk, any float).  Otherwise the longest prefix that reads as a  *)
(* number (an optional sign, then digits) is converted; when there is no   *)
(* such prefix the extraction fails and stores zero.                       *)
(***************************************************************************)
Indeterminate == {Flt(0), Flt(7)}

RECURSIVE DigitsValue(_, _, _)
DigitsValue(s, p, acc) ==
    IF p > Len(s) \/ ~IsDigit(s[p]) THEN acc
    ELSE DigitsValue(s, p + 1, acc * 10 + DigitVal(s[p]))

ExtractFloat(s, junk) ==
    IF s = <<>> THEN junk
    ELSE LET neg == s[1] = "-"
             start == IF neg THEN 2 ELSE 1
         IN  IF start > Len(s) \/ ~IsDigit(s[start]) THEN Flt(0)
             ELSE IF neg THEN Flt(-DigitsValue(s, start, 0))
             ELSE Flt(DigitsValue(s, start, 0))

\* the elements <<row, column>> of str whose read leaves f uninitialized
UninitReads(str) ==
    LET rows == split(str, ";", <<>>)
    IN  {rc \in (1..Len(rows)) \X (1..Len(str)) :
            LET elems == split(rows[rc[1]], ",", <<>>)
            IN  rc[2] <= Len(elems) /\ elems[rc[2]] = <<>>}

(***************************************************************************)
(* parse_matrix.  The result record holds the return value (ok), the three *)
(* reference parameters as the call leaves them, and what Log::error got.  *)
(***************************************************************************)
\* a defect for C1: each row's floats pushed in reverse order
RowFloatsReversed(elems, r, junk) ==
    [k \in 1..Len(elems) |->
        LET el == elems[Len(elems) + 1 - k]
        IN  ExtractFloat(el, IF el = <<>> THEN junk[<<r, Len(elems) + 1 - k>>] ELSE Flt(0))]

\* the inner loop: the floats of one row, in order
RowFloats(elems, r, junk) ==
    [k \in 1..Len(elems) |->
        ExtractFloat(elems[k], IF elems[k] = <<>> THEN junk[<<r, k>>] ELSE Flt(0))]

\* a defect for C2: the UINT_MAX sentinel of line 194 left out
RowMismatchNoSentinel(w, n) == U32(n) # w

\* a defect for C10: the rows' counts never compared
RowMismatchNever(w, n) == FALSE

\* the test of line 194: a width is known and this row's count differs from it
RowMismatch(w, n) == w # UINT_MAX /\ U32(n) # w

RECURSIVE ParseRows(_, _, _, _, _, _, _)
ParseRows(rows, r, w, flt, width, height, junk) ==
    IF r > Len(rows)
    THEN [ok |-> TRUE, filter |-> flt, width |-> w, height |-> U32(Len(rows)),
          log |-> <<>>]
    ELSE LET elems == split(rows[r], ",", <<>>)
         IN  IF RowMismatch(w, Len(elems))
             THEN [ok |-> FALSE, filter |-> flt, width |-> width, height |-> height,
                   log |-> <<[row |-> r - 1, elems |-> Len(elems), w |-> w]>>]
             ELSE ParseRows(rows, r + 1, U32(Len(elems)),
                            flt \o RowFloats(elems, r, junk), width, height, junk)

\* a variant for C3: a failed parse hands the caller's vector back untouched
parse_matrix_atomic(str, flt, width, height, junk) ==
    LET r == ParseRows(split(str, ";", <<>>), 1, UINT_MAX, flt, width, height, junk)
    IN  IF r.ok THEN r ELSE [r EXCEPT !.filter = flt]

parse_matrix(str, flt, width, height, junk) ==
    ParseRows(split(str, ";", <<>>), 1, UINT_MAX, flt, width, height, junk)

(***************************************************************************)
(* Values of the variables a specification does not use.                   *)
(***************************************************************************)
\* the empty std::string, in the shape of the generated shader strings: empty
\* marks "", consts are the names given to add_const, def is the text of
\* ss_def (one declaration per coefficient) and convolution the text of
\* ss_convolution, token by token
EmptyString == [empty |-> TRUE, consts |-> <<>>, def |-> <<>>, convolution |-> <<>>]

Idle ==
    /\ normalizeOpt = "true"
    /\ mRunning = FALSE
    /\ i = 0
    /\ ret = "none"
    /\ frg_source = EmptyString
    /\ log = <<>>
    /\ stages = <<>>

(***************************************************************************)
(* SpecParse: parse_matrix applied to every string of MatrixStrings, with  *)
(* the caller's vector empty or already holding an element.                *)
(***************************************************************************)
ParseCallers ==
    { [filter |-> <<>>, width |-> U32(0), height |-> U32(0)],
      [filter |-> <<Flt(9)>>, width |-> U32(1), height |-> U32(1)] }

InitParse ==
    /\ pc = "call"
    /\ matrix \in MatrixStrings
    /\ \E c \in ParseCallers :
          /\ filter = c.filter
          /\ filter_width = c.width
          /\ filter_height = c.height
    /\ Idle

ParseCall ==
    /\ pc = "call"
    /\ \E junk \in [UninitReads(matrix) -> Indeterminate] :
          LET r == parse_matrix(matrix, filter, filter_width, filter_height, junk)
          IN  /\ ret' = r.ok
              /\ filter' = r.filter
              /\ filter_width' = r.width
              /\ filter_height' = r.height
              /\ log' = r.log
    /\ pc' = "ret"
    /\ UNCHANGED <<matrix, normalizeOpt, mRunning, i, frg_source, stages>>

NextParse == ParseCall

SpecParse == InitParse /\ [][NextParse]_vars

(***************************************************************************)
(* What a matrix string denotes, stated without getline: the fields of a   *)
(* string are the stretches between its delimiters, a final empty stretch  *)
(* (an empty string, a trailing delimiter) not counting as a field.        *)
(***************************************************************************)
DelimPos(s, d) == {q \in 1..Len(s) : s[q] = d}

Fields(s, d) ==
    LET D == DelimPos(s, d)
        n == Cardinality(D)
        edge(k) == IF k = 0 THEN 0
                   ELSE IF k = n + 1 THEN Len(s) + 1
                   ELSE CHOOSE q \in D : Cardinality({p \in D : p < q}) = k - 1
        all == [k \in 1..(n + 1) |-> SubSeq(s, edge(k - 1) + 1, edge(k) - 1)]
    IN  IF all[n + 1] = <<>> THEN SubSeq(all, 1, n) ELSE all

NRows(str) == Len(Fields(str, ";"))

Element(str, r, k) == Fields(Fields(str, ";")[r], ",")[k]

NCols(str, r) == Len(Fields(Fields(str, ";")[r], ","))

Rectangular(str) == \A r \in 1..NRows(str) : NCols(str, r) = NCols(str, 1)

\* the rows after the first whose element count differs from the first row's
OddRows(str) == {r \in 2..NRows(str) : NCols(str, r) # NCols(str, 1)}

\* the floats an element may be read as
ElementValues(el) == IF el = <<>> THEN Indeterminate ELSE {ExtractFloat(el, Flt(0))}

\* flt is old followed by the elements of rows 1..n of str, row by row
HoldsRows(flt, old, str, n) ==
    LET w == IF n = 0 THEN 0 ELSE NCols(str, 1)
    IN  /\ Len(flt) = Len(old) + n * w
        /\ SubSeq(flt, 1, Len(old)) = old
        /\ \A r \in 1..n : \A k \in 1..w :
              flt[Len(old) + (r - 1) * w + k] \in ElementValues(Element(str, r, k))

ParseReturns == pc = "call" /\ pc' = "ret"

\* C1: for every matrix string whose rows all have the same number of
\* elements, parse_matrix returns true with width = the elements per row,
\* height = the number of rows, and the elements appended to the vector in
\* row-major order (row 0 left to right, then row 1, ...).
C1_ParseRowMajor ==
    [][(ParseReturns /\ Rectangular(matrix)) =>
          /\ ret' = TRUE
          /\ filter_height' = U32(NRows(matrix))
          /\ \A r \in 1..NRows(matrix) : filter_width' = U32(NCols(matrix, r))
          /\ HoldsRows(filter', filter, matrix, NRows(matrix))]_vars

C1_Witness ==
    /\ pc = "ret"
    /\ matrix = <<"1", ",", "2", ",", "3", ";", "4", ",", "5", ",", "6">>
    /\ ret = TRUE
    /\ filter = <<Flt(1), Flt(2), Flt(3), Flt(4), Flt(5), Flt(6)>>
    /\ filter_width = U32(3)
    /\ filter_height = U32(2)

\* C2: parse_matrix returns false exactly when some row after the first has
\* an element count different from the first row's, and the row index it
\* reports (0-based) is the smallest such row.
C2_ParseFailsAtFirstOddRow ==
    [][ParseReturns =>
          /\ (ret' = FALSE) <=> (OddRows(matrix) # {})
          /\ (ret' = FALSE) =>
                /\ Len(log') = 1
                /\ log'[1].row = Min(OddRows(matrix)) - 1
          /\ (ret' = TRUE) => log' = <<>>]_vars

C2_Witness ==
    /\ pc = "ret"
    /\ matrix = <<"1", ";", ";", ",", ",">>
    /\ ret = FALSE
    /\ log[1].row = 1

\* C3 as claimed: a failed parse_matrix leaves the caller's vector, width
\* and height as they were before the call.
C3_FailureLeavesKernelUntouched ==
    [][(ParseReturns /\ ret' = FALSE) =>
          /\ filter' = filter
          /\ filter_width' = filter_width
          /\ filter_height' = filter_height]_vars

\* C3 amended: a failed parse_matrix leaves width and height as they were,
\* and the caller's vector holds what it held before followed by the
\* elements of the rows read before the offending row.
C3_FailureKeepsRowsRead ==
    [][(ParseReturns /\ ret' = FALSE) =>
          /\ filter_width' = filter_width
          /\ filter_height' = filter_height
          /\ OddRows(matrix) # {}
          /\ HoldsRows(filter', filter, matrix, Min(OddRows(matrix)) - 1)]_vars

C3_Witness ==
    /\ pc = "ret"
    /\ matrix = <<"1", ",", "2", ";", "3">>
    /\ ret = FALSE
    /\ filter = <<Flt(1), Flt(2)>>
    /\ filter_width = U32(0)
    /\ filter_height = U32(0)

(***************************************************************************)
(* normalize.                                                              *)
(***************************************************************************)
\* std::accumulate(filter.begin(), filter.end(), 0.0), line 232
accumulate(flt) == FSum(flt)

\* a defect for C4: the zero-sum divisor used for every kernel
ZeroSumAlways(sum) == TRUE

\* the test of line 238: the sum is essentially zero
ZeroSum(sum) == FAbsBelowEpsilon(sum)

\* a defect for C5: the magnitudes of all weights summed
AbsoluteSum(flt) == FSum([k \in 1..Len(flt) |-> <<Abs(flt[k][1]), flt[k][2]>>])

\* the loop of lines 240-246: the sum of the strictly positive weights
PositiveSum(flt) == FSum(SelectSeq(flt, LAMBDA w : w[1] > 0))

\* the value of sum when line 253 is reached
Divisor(flt) ==
    LET sum == accumulate(flt)
    IN  IF ZeroSum(sum) THEN PositiveSum(flt) ELSE sum

\* a defect for C6: the zero test of line 253 left out
SkipDivisionNever(sum) == FALSE

\* the test of line 253: nothing is divided
SkipDivision(sum) == sum = <<0, 1>>

normalize(flt) ==
    LET sum == Divisor(flt)
    IN  IF SkipDivision(sum) THEN flt
        ELSE [k \in 1..Len(flt) |-> FDiv(flt[k], sum)]

(***************************************************************************)
(* SpecNormalize: normalize applied to every kernel of at most             *)
(* MaxFilterLen weights drawn from small integers, or from multiples of a  *)
(* weight Tiny below the epsilon.                                          *)
(***************************************************************************)
Tiny == <<1, 2^28>>

UnitWeights == {Flt(-1), Flt(0), Flt(1), Flt(2)}

TinyWeights == {<<-1, 2^28>>, Flt(0), Tiny}

SeqsUpTo(S, n) == UNION {[1..k -> S] : k \in 0..n}

Kernels == SeqsUpTo(UnitWeights, MaxFilterLen) \cup SeqsUpTo(TinyWeights, MaxFilterLen)

InitNormalize ==
    /\ pc = "call"
    /\ filter \in Kernels
    /\ matrix = <<>>
    /\ filter_width = U32(0)
    /\ filter_height = U32(0)
    /\ Idle

NormalizeCall ==
    /\ pc = "call"
    /\ filter' = normalize(filter)
    /\ pc' = "ret"
    /\ UNCHANGED <<matrix, normalizeOpt, mRunning, filter_width, filter_height,
                   i, ret, frg_source, log, stages>>

NextNormalize == NormalizeCall

SpecNormalize == InitNormalize /\ [][NextNormalize]_vars

NormalizeReturns == pc = "call" /\ pc' = "ret"

HasPositive(flt) == \E k \in 1..Len(flt) : flt[k][1] > 0

Sign(a) == IF a[1] > 0 THEN 1 ELSE IF a[1] < 0 THEN -1 ELSE 0

\* C4: for every kernel whose sum S has |S| >= epsilon, normalize replaces
\* each weight w by w / S, so that the weights then sum to 1, and the
\* number of weights is unchanged.
C4_NormalizeBySum ==
    [][(NormalizeReturns /\ ~FAbsBelowEpsilon(FSum(filter))) =>
          /\ Len(filter') = Len(filter)
          /\ \A k \in 1..Len(filter) :
                /\ filter'[k][2] > 0
                /\ FMul(filter'[k], FSum(filter)) = filter[k]
          /\ FSum(filter') = Flt(1)]_vars

C4_Witness ==
    /\ pc = "ret"
    /\ filter = <<<<2, 3>>, <<-1, 3>>, <<2, 3>>>>

\* the strictly positive weights of a kernel sum to 1
PositiveLobeIsOne(flt) == FSum(SelectSeq(flt, LAMBDA w : w[1] > 0)) = Flt(1)

\* normalize divided every weight of old by the sum P of old's strictly
\* positive weights
DividedByPositiveSum(new, old) ==
    LET P == FSum(SelectSeq(old, LAMBDA w : w[1] > 0))
    IN  /\ Len(new) = Len(old)
        /\ \A k \in 1..Len(old) :
              /\ new[k][2] > 0
              /\ FMul(new[k], P) = old[k]
              /\ Sign(new[k]) = Sign(old[k])
        /\ PositiveLobeIsOne(new)

\* C5 as claimed: for every kernel with |sum| < epsilon and a strictly
\* positive weight, normalize divides every weight by the sum of the
\* strictly positive weights, after which those sum to 1, every weight has
\* kept its sign, and the total still sums to zero.
C5_ZeroSumTotalStaysZero ==
    [][(NormalizeReturns /\ FAbsBelowEpsilon(FSum(filter)) /\ HasPositive(filter)) =>
          /\ DividedByPositiveSum(filter', filter)
          /\ FSum(filter') = Flt(0)]_vars

\* C5 amended: for every kernel with |sum| < epsilon and a strictly positive
\* weight, normalize divides every weight by the sum P of the strictly
\* positive weights, after which those sum to 1 and every weight has kept its
\* sign; the total becomes (old total) / P, which is zero when the old total
\* is exactly zero and is not zero otherwise.
C5_ZeroSumDividesByPositiveSum ==
    [][(NormalizeReturns /\ FAbsBelowEpsilon(FSum(filter)) /\ HasPositive(filter)) =>
          /\ DividedByPositiveSum(filter', filter)
          /\ FMul(FSum(filter'), FSum(SelectSeq(filter, LAMBDA w : w[1] > 0)))
                = FSum(filter)
          /\ (FSum(filter') = Flt(0)) <=> (FSum(filter) = Flt(0))]_vars

C5_Witness ==
    /\ pc = "ret"
    /\ filter = <<<<1, 2>>, <<-1, 2>>, <<1, 2>>, <<-1, 2>>>>

\* the kernels on which the divisor normalize selects is exactly zero: all
\* weights zero (the empty kernel included), or |sum| < epsilon with no
\* strictly positive weight
ZeroDivisorKernel(flt) ==
    \/ \A k \in 1..Len(flt) : flt[k] = Flt(0)
    \/ FAbsBelowEpsilon(FSum(flt)) /\ ~HasPositive(flt)

\* C6: normalize never divides by zero: no weight it leaves is the result of
\* a division by zero, and on every kernel whose divisor is exactly zero it
\* returns with every weight equal to its input value.
C6_NormalizeNoDivisionByZero ==
    [][NormalizeReturns =>
          /\ Len(filter') = Len(filter)
          /\ \A k \in 1..Len(filter') : filter'[k][2] # 0
          /\ ZeroDivisorKernel(filter) => filter' = filter]_vars

C6_Witness ==
    /\ pc = "ret"
    /\ filter = <<<<-1, 2^28>>, Flt(0), <<-1, 2^28>>>>

(***************************************************************************)
(* calc_offset.  Both coordinates are computed on unsigned int and then    *)
(* converted to int; the conversions to float that follow are exact for    *)
(* the magnitudes below 2^24 that the model reaches.  With width = 0 the   *)
(* divisions of lines 58-59 are undefined: the result is flagged (fault)   *)
(* and carries no coordinates worth reading.                               *)
(***************************************************************************)
calc_offset(n, width, height) ==
    IF width = U32(0) THEN [x |-> 0, y |-> 0, fault |-> TRUE]
    ELSE [x |-> ToInt(Sub32(Mod32(n, width), Half32(Sub32(width, U32(1))))),
          y |-> ToInt(Neg32(Sub32(Div32(n, width), Half32(Sub32(height, U32(1)))))),
          fault |-> FALSE]

(***************************************************************************)
(* SpecOffset: calc_offset applied to every index of every kernel shape of *)
(* at most MaxDim by MaxDim, and of shapes with one side of 2^16 + 1.      *)
(***************************************************************************)
Dims == (1..MaxDim) \cup {W16 + 1}

InitOffset ==
    /\ pc = "call"
    /\ \E w \in Dims, h \in Dims :
          /\ filter_width = U32(w)
          /\ filter_height = U32(h)
          /\ i \in 0..(MaxDim * MaxDim - 1)
          /\ (w <= MaxDim /\ h <= MaxDim) => i < w * h
    /\ matrix = <<>>
    /\ filter = <<>>
    /\ normalizeOpt = "true"
    /\ mRunning = FALSE
    /\ ret = "none"
    /\ frg_source = EmptyString
    /\ log = <<>>
    /\ stages = <<>>

OffsetCall ==
    /\ pc = "call"
    /\ ret' = calc_offset(i, filter_width, filter_height)
    /\ pc' = "ret"
    /\ UNCHANGED <<matrix, normalizeOpt, mRunning, filter, filter_width,
                   filter_height, i, frg_source, log, stages>>

NextOffset == OffsetCall

SpecOffset == InitOffset /\ [][NextOffset]_vars

\* the offset of coefficient n in a kernel of w by h, in signed integers
SignedOffsetX(n, w) == (n % w) - ((w - 1) \div 2)

SignedOffsetY(n, w, h) == -((n \div w) - ((h - 1) \div 2))

\* C7: for every width >= 1, height >= 1 and index i < width * height,
\* calc_offset returns x = (i mod width) - floor((width - 1) / 2) and
\* y = -((i div width) - floor((height - 1) / 2)) as signed values, although
\* it computes them on unsigned int.
C7_OffsetIsSigned ==
    pc = "ret" =>
        LET w == ToInt(filter_width)
            h == ToInt(filter_height)
        IN  /\ ret.fault = FALSE
            /\ ret.x = SignedOffsetX(i, w)
            /\ ret.y = SignedOffsetY(i, w, h)

C7_Witness ==
    /\ pc = "ret"
    /\ i = 0
    /\ filter_width = U32(3)
    /\ filter_height = U32(3)
    /\ ret = [x |-> -1, y |-> 1, fault |-> FALSE]

(***************************************************************************)
(* "stream << std::fixed << f": the decimal text of a float with prec      *)
(* digits after the point, rounded to nearest (ties to even), as a record  *)
(* of the sign, the integer part and the prec fraction digits.  For        *)
(* denominators below 2^27.                                                *)
(***************************************************************************)
RECURSIVE FracDigits(_, _, _, _)
FracDigits(r, d, k, acc) ==
    IF k = 0 THEN <<acc, r>>
    ELSE FracDigits((r * 10) % d, d, k - 1, acc * 10 + (r * 10) \div d)

Fixed(a, prec) ==
    LET N == Abs(a[1])
        d == a[2]
        fr == FracDigits(N % d, d, prec, 0)
        up == 2 * fr[2] > d \/ (2 * fr[2] = d /\ fr[1] % 2 = 1)
        f == fr[1] + (IF up THEN 1 ELSE 0)
    IN  [neg |-> a[1] < 0, int |-> N \div d + f \div 10^prec, frac |-> f % 10^prec]

\* the precision of ss_def: the stream default, line 111 sets none
DefPrecision == 6

\* the precision of ss_convolution, line 112
ConvPrecision == 1

(***************************************************************************)
(* create_convolution_fragment_shader.  The result record holds the string *)
(* returned (src) and what Log::error got (log).                           *)
(***************************************************************************)
\* the test of line 98
SizeMismatch(array, width, height) == Mul32(width, height) # U32(Len(array))

\* lines 124-125: "const float Filter<n> = <weight>;"
FilterDef(n, weight) == [name |-> n, value |-> Fixed(weight, DefPrecision)]

\* lines 128-131: the term of coefficient n
ConvTerm(n, width, height) ==
    LET offset == calc_offset(n, width, height)
    IN  [t |-> "term",
         x |-> Fixed(Flt(offset.x), ConvPrecision),
         y |-> Fixed(Flt(offset.y), ConvPrecision),
         fault |-> offset.fault,
         filter |-> n]

\* a defect for C8: a joiner written after every term
LastTermNever(k, n) == FALSE

\* the test of line 132, negated: the iterator is at the last coefficient
LastTerm(k, n) == k = n

\* the loop of lines 117-134 from coefficient k (1-based) on, ss_convolution
RECURSIVE ConvLoop(_, _, _, _)
ConvLoop(array, width, height, k) ==
    IF k > Len(array) THEN <<>>
    ELSE <<ConvTerm(k - 1, width, height)>>
         \o (IF LastTerm(k, Len(array)) THEN <<>> ELSE <<[t |-> "+"]>>)
         \o ConvLoop(array, width, height, k + 1)

create_convolution_fragment_shader(array, width, height) ==
    IF SizeMismatch(array, width, height)
    THEN [src |-> EmptyString,
          log |-> <<"Convolution filter size doesn't match supplied dimensions">>]
    ELSE [src |-> [empty |-> FALSE,
                   consts |-> <<"TextureStepX", "TextureStepY">>,
                   def |-> [k \in 1..Len(array) |-> FilterDef(k - 1, array[k])],
                   convolution |-> <<[t |-> "result ="]>>
                                   \o ConvLoop(array, width, height, 1)
                                   \o <<[t |-> ";"]>>],
          log |-> <<>>]

(***************************************************************************)
(* SpecSynth: the generator applied to every array of at most MaxArray     *)
(* coefficients with every width and height up to MaxArray, matching the   *)
(* array's size or not.                                                    *)
(***************************************************************************)
SynthWeights == {Flt(0), Flt(1), Flt(5), <<-1, 2>>, <<1, 3>>}

SynthDims == {U32(n) : n \in 0..MaxArray} \cup {UINT_MAX}

InitSynth ==
    /\ pc = "call"
    /\ filter \in SeqsUpTo(SynthWeights, MaxArray)
    /\ filter_width \in SynthDims
    /\ filter_height \in SynthDims
    /\ matrix = <<>>
    /\ Idle

SynthCall ==
    /\ pc = "call"
    /\ LET g == create_convolution_fragment_shader(filter, filter_width, filter_height)
       IN  /\ ret' = g.src
           /\ log' = g.log
    /\ pc' = "ret"
    /\ UNCHANGED <<matrix, normalizeOpt, mRunning, filter, filter_width,
                   filter_height, i, frg_source, stages>>

NextSynth == SynthCall

SpecSynth == InitSynth /\ [][NextSynth]_vars

\* the number of tokens of kind t in a token sequence
CountTokens(toks, t) == Cardinality({k \in 1..Len(toks) : toks[k].t = t})

\* array, width and height form a kernel: width * height, as a product of
\* integers, is the number of coefficients
IsKernel(array, width, height) ==
    IF array = <<>> THEN width = U32(0) \/ height = U32(0)
    ELSE \E w \in 1..Len(array), h \in 1..Len(array) :
            /\ w * h = Len(array)
            /\ width = U32(w)
            /\ height = U32(h)

\* C8: for a kernel of n = width * height weights the generator emits n
\* declarations Filter0..Filter(n-1), in order, Filter i holding weight i (in
\* fixed notation), and an accumulation expression of n terms in the same
\* order, term i sampling at the offset of coefficient i and multiplied by
\* Filter i, a '+' after every term except the last and one final ';'.
C8_ShaderTermsAndDefs ==
    (pc = "ret" /\ IsKernel(filter, filter_width, filter_height)) =>
        LET n == Len(filter)
            w == ToInt(filter_width)
            h == ToInt(filter_height)
            conv == ret.convolution
        IN  /\ ~ret.empty
            /\ Len(ret.def) = n
            /\ \A k \in 1..n :
                  /\ ret.def[k].name = k - 1
                  /\ ret.def[k].value = Fixed(filter[k], DefPrecision)
            /\ Len(conv) = (IF n = 0 THEN 2 ELSE 2 * n + 1)
            /\ conv[1].t = "result ="
            /\ conv[Len(conv)].t = ";"
            /\ CountTokens(conv, "term") = n
            /\ CountTokens(conv, "+") = (IF n = 0 THEN 0 ELSE n - 1)
            /\ CountTokens(conv, ";") = 1
            /\ \A k \in 1..n :
                  /\ conv[2 * k].t = "term"
                  /\ conv[2 * k].filter = k - 1
                  /\ conv[2 * k].fault = FALSE
                  /\ conv[2 * k].x = Fixed(Flt(SignedOffsetX(k - 1, w)), ConvPrecision)
                  /\ conv[2 * k].y = Fixed(Flt(SignedOffsetY(k - 1, w, h)), ConvPrecision)
                  /\ k < n => conv[2 * k + 1].t = "+"

\* a 1x1 kernel <<5.0>>: one term at offset (0.0, 0.0) times Filter0 = 5.000000
C8_Witness ==
    /\ pc = "ret"
    /\ filter = <<Flt(5)>>
    /\ filter_width = U32(1)
    /\ filter_height = U32(1)
    /\ ~ret.empty
    /\ ret.def = <<[name |-> 0, value |-> [neg |-> FALSE, int |-> 5, frac |-> 0]]>>
    /\ Len(ret.convolution) = 3
    /\ ret.convolution[2].x = [neg |-> FALSE, int |-> 0, frac |-> 0]
    /\ ret.convolution[2].y = [neg |-> FALSE, int |-> 0, frac |-> 0]

(***************************************************************************)
(* The scene.  Init is the scene as constructed, with the two options at   *)
(* their defaults or set by the benchmark's command line; a scene option   *)
(* holds any string.  setup's locals are kept as the last setup left them; *)
(* ret then holds what parse_matrix returned (FALSE before any setup).     *)
(***************************************************************************)
NormalizeValues == {"true", "false", "yes"}

Init ==
    /\ pc = "scene"
    /\ matrix \in StringsUpTo(MaxOptLen) \cup Samples
    /\ normalizeOpt \in NormalizeValues
    /\ mRunning = FALSE
    /\ filter = <<>>
    /\ filter_width = U32(0)
    /\ filter_height = U32(0)
    /\ i = 0
    /\ ret = FALSE
    /\ frg_source = EmptyString
    /\ log = <<>>
    /\ stages = <<>>

\* SceneEffect2D::load: the texture is loaded and the scene is not running
load ==
    /\ pc = "scene"
    /\ mRunning' = FALSE
    /\ UNCHANGED <<pc, matrix, normalizeOpt, filter, filter_width, filter_height,
                   i, ret, frg_source, log, stages>>

\* the values an uninitialized unsigned int local may hold
IndeterminateU32 == {U32(0), UINT_MAX}

\* a defect for C9: the normalize option ignored
NormalizeAlways(value) == TRUE

\* the test of line 297
NormalizeWanted(value) == value = "true"

\* the stages of a setup, in order: after a parse that returned ok, with the
\* normalize option opt, a generated string that is empty or not, and shaders
\* that loaded or not
StagesRun(ok, opt, empty, loaded) ==
    <<"parse">>
    \o (IF ~ok THEN <<>>
        ELSE (IF NormalizeWanted(opt) THEN <<"normalize">> ELSE <<>>)
             \o <<"synthesize">>
             \o (IF empty THEN <<>>
                 ELSE <<"load_shaders">>
                      \o (IF loaded THEN <<"start">> ELSE <<>>)))

\* SceneEffect2D::setup.  Scene::load_shaders_from_strings compiles and links
\* outside this file: it returns either value (loaded).  filter_width and
\* filter_height start uninitialized (uw, uh).  A successful parse overwrites
\* them and a failed one never reaches load_shaders_from_strings, so each of
\* uw, uh and loaded is drawn only where its value is kept or consulted.
setup ==
    /\ pc = "scene"
    /\ \E junk \in [UninitReads(matrix) -> Indeterminate] :
          LET ok == parse_matrix(matrix, <<>>, U32(0), U32(0), junk).ok
          IN  \E uw \in (IF ok THEN {U32(0)} ELSE IndeterminateU32),
                 uh \in (IF ok THEN {U32(0)} ELSE IndeterminateU32),
                 loaded \in (IF ok THEN BOOLEAN ELSE {FALSE}) :
                 LET p == parse_matrix(matrix, <<>>, uw, uh, junk)
                     flt == IF p.ok /\ NormalizeWanted(normalizeOpt)
                            THEN normalize(p.filter) ELSE p.filter
                     g == IF p.ok
                          THEN create_convolution_fragment_shader(flt, p.width, p.height)
                          ELSE [src |-> EmptyString, log |-> <<>>]
                     empty == p.ok /\ g.src.empty
                 IN  /\ ret' = p.ok
                     /\ filter' = flt
                     /\ filter_width' = p.width
                     /\ filter_height' = p.height
                     /\ frg_source' = g.src
                     /\ log' = p.log \o g.log
                     /\ stages' = StagesRun(p.ok, normalizeOpt, empty, loaded)
                     /\ mRunning' = IF p.ok /\ ~empty /\ loaded THEN TRUE ELSE mRunning
    /\ UNCHANGED <<pc, matrix, normalizeOpt, i>>

Next == load \/ setup

Spec == Init /\ [][Next]_vars

\* the position of stage name in a sequence of stages, 0 when it did not run
StageAt(st, name) ==
    IF \E k \in 1..Len(st) : st[k] = name
    THEN CHOOSE k \in 1..Len(st) : st[k] = name
    ELSE 0

\* C9: setup runs parse, then normalize (only when the normalize option is
\* "true"), then synthesize, and a failure cuts short what follows: after a
\* failed parse nothing else runs, after an empty generated string no shader
\* is loaded, and mRunning becomes true only when parse, synthesis and shader
\* loading all succeeded; on every other path it keeps its value.
C9_SetupShortCircuits ==
    [][setup =>
          LET st == stages'
              started == st[Len(st)] = "start"
              synth == IF normalizeOpt = "true" THEN 3 ELSE 2
          IN  /\ st[1] = "parse"
              /\ ret' = FALSE =>
                    /\ st = <<"parse">>
                    /\ frg_source' = EmptyString
              /\ ret' = TRUE =>
                    /\ Len(st) >= synth
                    /\ st[synth] = "synthesize"
                    /\ StageAt(st, "normalize") = (IF normalizeOpt = "true" THEN 2 ELSE 0)
                    /\ normalizeOpt # "true" =>
                          HoldsRows(filter', <<>>, matrix, NRows(matrix))
                    /\ frg_source'.empty => Len(st) = synth
                    /\ ~frg_source'.empty =>
                          /\ Len(st) \in {synth + 1, synth + 2}
                          /\ st[synth + 1] = "load_shaders"
                          /\ Len(st) = synth + 2 => started
              /\ started => Len(st) = synth + 2
              /\ mRunning' = (IF started THEN TRUE ELSE mRunning)]_vars

\* a setup whose shaders fail to load leaves a scene that was running, running
C9_Witness ==
    /\ pc = "scene"
    /\ matrix = <<"1", ",", "2", ";", "3", ",", "4">>
    /\ normalizeOpt = "true"
    /\ stages = <<"parse", "normalize", "synthesize", "load_shaders">>
    /\ filter = <<<<1, 10>>, <<1, 5>>, <<3, 10>>, <<2, 5>>>>
    /\ mRunning = TRUE

\* the terms of the generated accumulation expression
Terms(src) == {k \in 1..Len(src.convolution) : src.convolution[k].t = "term"}

\* C10: whatever the matrix string, after a successful parse the generator's
\* size check passes, and calc_offset is never called with width = 0: a term
\* is generated only for a kernel of at least one weight, whose width is then
\* at least 1.
C10_NoOffsetWithZeroWidth ==
    (pc = "scene" /\ stages # <<>>) =>
        /\ ret = FALSE => stages = <<"parse">>
        /\ ret = TRUE =>
              /\ StageAt(stages, "synthesize") # 0
              /\ ~frg_source.empty
              /\ log = <<>>
              /\ Cardinality(Terms(frg_source)) = Len(filter)
              /\ \A k \in Terms(frg_source) : ~frg_source.convolution[k].fault
              /\ filter # <<>> => filter_width # U32(0)

\* the empty string: a kernel of height 0 and width UINT_MAX, and no term
C10_Witness ==
    /\ pc = "scene"
    /\ stages # <<>>
    /\ matrix = <<>>
    /\ ret = TRUE
    /\ filter_width = UINT_MAX
    /\ filter_height = U32(0)
    /\ ~frg_source.empty
    /\ Terms(frg_source) = {}

====
